---- MODULE Spec2Model ----
(***************************************************************************)
(* Model of examples/reasoning_function_calls.ipynb: the tool-call         *)
(* resolution helper invoke_functions_from_response and the three code     *)
(* cells that resolve tool calls: the single function-call cell, the       *)
(* previous_response_id response loop and the manual orchestration loop.   *)
(* The remote service and the registered tool are the environment: the     *)
(* service answers a request with any response it could return, the tool   *)
(* returns a fresh UUID.                                                   *)
(***************************************************************************)
EXTENDS Integers, Sequences, FiniteSets, TLC

VARIABLES
    cell,                   \* which code cell runs: "single", "previd", "manual"
    pc,                     \* position of the cell's control flow
    conversation,           \* manual loop: the conversation log
    msgIdx,                 \* manual loop: user messages consumed by the for loop
    response,               \* the last response received
    responses,              \* the id and output of every response received so far, in order
    idx,                    \* position of the loop over the response's items
    intermediate_messages,  \* invoke_functions_from_response: its result list
    new_conversation_items, \* single function-call cell: its result list
    requests,               \* every request sent so far: its input and previous_response_id
    invoked,                \* call_ids for which target_tool(**arguments) was called
    raised,                 \* the exception that left the cell, "" when none
    total_tokens_used,      \* manual loop: the token accumulator
    nextId                  \* ids the service has assigned so far

vars == <<cell, pc, conversation, msgIdx, response, responses, idx, intermediate_messages,
          new_conversation_items, requests, invoked, raised, total_tokens_used, nextId>>

-----------------------------------------------------------------------------
(* Bounds of the model *)

\* most items the service puts in one response
MaxItems == 2
\* most items the service returns in one run
MaxIds == 2
\* the tool's UUIDs are drawn from 1..MaxUuid
MaxUuid == 2
\* a response's usage.total_tokens is drawn from 1..MaxTokens
MaxTokens == 2

(* Program constants *)

\* len(user_messages)
NumUserMessages == 2

-----------------------------------------------------------------------------
(* Conversation items *)

NoOutput == [kind |-> "", name |-> "", detail |-> "", uuid |-> 0]

Item(type, role, id, call_id, name, arguments, output) ==
    [type |-> type, role |-> role, id |-> id, call_id |-> call_id, name |-> name,
     arguments |-> arguments, output |-> output]

\* a user message of the manual loop; k is its position in user_messages
UserMessage(k) == Item("message", "user", <<>>, <<>>, "", "", NoOutput) @@ [content |-> k]

\* the dictionary the helper appends for a function call
FunctionCallOutput(call_id, tool_output) ==
    Item("function_call_output", "", <<>>, call_id, "", "", tool_output) @@ [content |-> 0]

\* the names tool_mapping maps to a function
tool_mapping == {"get_city_uuid"}

\* what the service may put in a response: reasoning items, assistant messages
\* and function calls, naming a registered or an unregistered tool, whose
\* arguments string is a JSON object the tool accepts ("valid"), no JSON at
\* all ("malformed") or JSON the tool's signature rejects ("badkeys")
ItemKinds ==
    {[type |-> "reasoning", name |-> "", arguments |-> ""],
     [type |-> "message", name |-> "", arguments |-> ""]}
    \cup {[type |-> "function_call", name |-> "get_city_uuid", arguments |-> a] :
            a \in {"valid", "malformed", "badkeys"}}
    \cup {[type |-> "function_call", name |-> "unknown_tool", arguments |-> a] :
            a \in {"valid", "malformed"}}

\* the item of kind k the service numbers i: its id ('rs_..', 'fc_..', 'msg_..')
\* and, for a function call, its call_id ('call_..')
ServiceItem(k, i) ==
    Item(k.type, IF k.type = "message" THEN "assistant" ELSE "",
         <<k.type, i>>,
         IF k.type = "function_call" THEN <<"call", i>> ELSE <<>>,
         k.name, k.arguments, NoOutput)
    @@ [content |-> 0]

NoResponse == [id |-> 0, output |-> <<>>, total_tokens |-> 0]

\* the responses the service can return to request number r once it has
\* assigned the item ids 1..n
Responses(r, n) ==
    UNION {{[id |-> r,
             output |-> [i \in 1..len |-> ServiceItem(shape[i], n + i)],
             total_tokens |-> t] :
                shape \in [1..len -> ItemKinds], t \in 1..MaxTokens} :
           len \in {l \in 0..MaxItems : n + l <= MaxIds}}

-----------------------------------------------------------------------------
(* Pure helpers of the cells *)

\* [rx for rx in response.output if rx.type == t]
OfType(output, t) == SelectSeq(output, LAMBDA rx : rx.type = t)

\* tool_mapping.get(name) is truthy
Registered(name) == name \in tool_mapping

\* the exception json.loads(arguments) followed by target_tool(**arguments)
\* raises, "" when the tool returns: json.loads rejects a malformed string,
\* get_city_uuid(city) rejects keyword arguments other than city
TryRaises(arguments) ==
    IF arguments = "malformed" THEN "JSONDecodeError"
    ELSE IF arguments = "badkeys" THEN "TypeError"
    ELSE ""

\* mutants: an except clause that names one exception class only
ExceptCatchesJSONOnly(e) == e = "JSONDecodeError"

ExceptCatchesTypeErrorOnly(e) == e = "TypeError"

\* except Exception as e: catches e
ExceptCatches(e) == e \in {"JSONDecodeError", "TypeError"}

\* the exception that leaves the helper while it handles response_item, "" when none
HelperRaises(response_item) ==
    IF /\ Registered(response_item.name)
       /\ TryRaises(response_item.arguments) # ""
       /\ ~ExceptCatches(TryRaises(response_item.arguments))
    THEN TryRaises(response_item.arguments)
    ELSE ""

\* mutant: the else branch reports an unregistered tool as an execution error
ToolOutputNoMarker(response_item, u) ==
    IF Registered(response_item.name) /\ TryRaises(response_item.arguments) = ""
    THEN [kind |-> "ID", name |-> response_item.name, detail |-> "", uuid |-> u]
    ELSE [kind |-> "Error executing function call", name |-> response_item.name,
          detail |-> TryRaises(response_item.arguments), uuid |-> 0]

\* tool_output as the helper sets it for response_item; u is the UUID the
\* tool draws when it runs
ToolOutput(response_item, u) ==
    IF Registered(response_item.name)
    THEN IF TryRaises(response_item.arguments) # ""
         THEN [kind |-> "Error executing function call", name |-> response_item.name,
               detail |-> TryRaises(response_item.arguments), uuid |-> 0]
         ELSE [kind |-> "ID", name |-> response_item.name, detail |-> "", uuid |-> u]
    ELSE [kind |-> "ERROR - No tool registered for function call",
          name |-> response_item.name, detail |-> "", uuid |-> 0]

\* mutant: the tool is called before its arguments are parsed
CallsToolUnparsed(response_item) == Registered(response_item.name)

\* the call target_tool(**arguments) is reached for response_item
CallsTool(response_item) ==
    Registered(response_item.name) /\ response_item.arguments # "malformed"

\* mutant: the log is assigned instead of extended
ExtendReplace(log, items) == items

\* conversation.extend(items)
Extend(log, items) == log \o items

\* mutant: the output is filed under the item's id instead of its call_id
HelperAppendItemId(msgs, response_item, tool_output) ==
    Append(msgs, FunctionCallOutput(response_item.id, tool_output))

\* mutant: no output is appended for an unregistered tool
HelperAppendRegisteredOnly(msgs, response_item, tool_output) ==
    IF Registered(response_item.name)
    THEN Append(msgs, FunctionCallOutput(response_item.call_id, tool_output))
    ELSE msgs

\* mutant: the output is filed under an id generated with the output
HelperAppendLocalId(msgs, response_item, tool_output) ==
    Append(msgs, FunctionCallOutput(<<"call", tool_output.uuid>>, tool_output))

\* mutant: the output is put at the front of the list
HelperAppendFront(msgs, response_item, tool_output) ==
    <<FunctionCallOutput(response_item.call_id, tool_output)>> \o msgs

\* intermediate_messages.append({... "call_id": response_item.call_id ...})
HelperAppend(msgs, response_item, tool_output) ==
    Append(msgs, FunctionCallOutput(response_item.call_id, tool_output))

\* mutant: the calls are appended without their outputs
InterleaveCallsOnly(function_calls, function_outputs) == function_calls

\* mutant: the outputs follow all the calls instead of being interleaved
InterleaveConcat(function_calls, function_outputs) == function_calls \o function_outputs

\* mutant: the outputs are appended without their calls
InterleaveOutputsOnly(function_calls, function_outputs) == function_outputs

\* [val for pair in zip(function_calls, function_outputs) for val in pair]
RECURSIVE Interleave(_, _)
Interleave(function_calls, function_outputs) ==
    IF function_calls = <<>> \/ function_outputs = <<>>
    THEN <<>>
    ELSE <<Head(function_calls), Head(function_outputs)>>
         \o Interleave(Tail(function_calls), Tail(function_outputs))

\* mutant: the loop stops once the response holds a message
ManualBreakOnMessage(output) == Len(OfType(output, "message")) > 0

\* the manual loop's break test
ManualBreak(output) == Len(OfType(output, "function_call")) = 0

\* mutant: the loop body runs once, whatever the helper returned
PrevIdBreakAlways(function_responses) == TRUE

\* the previous_response_id loop's break test
PrevIdBreak(function_responses) == Len(function_responses) = 0

\* mutant: the accumulator is assigned the response's usage, not increased by it
AccumulateAssign(total, resp) == resp.total_tokens

\* total_tokens_used += response.usage.total_tokens
Accumulate(total, resp) == total + resp.total_tokens

-----------------------------------------------------------------------------
(* Initial state: one of the three cells is about to run *)

Init ==
    /\ cell \in {"single", "previd", "manual"}
    /\ pc = IF cell = "manual" THEN "for" ELSE "create"
    /\ conversation = <<>>
    /\ msgIdx = 0
    /\ response = NoResponse
    /\ responses = <<>>
    /\ idx = 1
    /\ intermediate_messages = <<>>
    /\ new_conversation_items = <<>>
    /\ requests = <<>>
    /\ invoked = <<>>
    /\ raised = ""
    /\ total_tokens_used = 0
    /\ nextId = 0

\* client.responses.create(input=..., previous_response_id=...) is called
Send(input, previous_response_id) ==
    requests' = Append(requests,
                       [input |-> input, previous_response_id |-> previous_response_id])

-----------------------------------------------------------------------------
(* invoke_functions_from_response: one iteration of its loop over response.output *)

HelperStep ==
    /\ cell \in {"previd", "manual"}
    /\ pc = "invoke"
    /\ idx <= Len(response.output)
    /\ LET response_item == response.output[idx] IN
        IF response_item.type = "function_call"
        THEN /\ invoked' = IF CallsTool(response_item)
                           THEN Append(invoked, response_item.call_id)
                           ELSE invoked
             /\ IF HelperRaises(response_item) # ""
                THEN /\ raised' = HelperRaises(response_item)
                     /\ pc' = "raised"
                     /\ UNCHANGED <<idx, intermediate_messages>>
                ELSE /\ \E u \in 1..MaxUuid :
                         intermediate_messages' =
                             HelperAppend(intermediate_messages, response_item,
                                          ToolOutput(response_item, u))
                     /\ idx' = idx + 1
                     /\ UNCHANGED <<pc, raised>>
        ELSE /\ idx' = idx + 1
             /\ UNCHANGED <<intermediate_messages, invoked, pc, raised>>
    /\ UNCHANGED <<cell, conversation, msgIdx, response, responses, new_conversation_items,
                   requests, total_tokens_used, nextId>>

-----------------------------------------------------------------------------
(* The manual orchestration loop *)

\* for message in user_messages: conversation.append(conversation_item)
ManualNextMessage ==
    /\ cell = "manual"
    /\ pc = "for"
    /\ IF msgIdx < NumUserMessages
       THEN /\ msgIdx' = msgIdx + 1
            /\ conversation' = Extend(conversation, <<UserMessage(msgIdx + 1)>>)
            /\ pc' = "create"
       ELSE /\ pc' = "done"
            /\ UNCHANGED <<msgIdx, conversation>>
    /\ UNCHANGED <<cell, response, responses, idx, intermediate_messages, new_conversation_items,
                   requests, invoked, raised, total_tokens_used, nextId>>

\* client.responses.create(input=conversation, **MODEL_DEFAULTS) is called
ManualCreate ==
    /\ cell = "manual"
    /\ pc = "create"
    /\ Send(conversation, 0)
    /\ pc' = "await"
    /\ UNCHANGED <<cell, conversation, msgIdx, response, responses, idx, intermediate_messages,
                   new_conversation_items, invoked, raised, total_tokens_used, nextId>>

\* the response arrives: the accumulator, the partition, the reasoning items,
\* and for a response without function calls the messages and the break
ManualReceive ==
    /\ cell = "manual"
    /\ pc = "await"
    /\ \E resp \in Responses(Len(requests), nextId) :
        /\ response' = resp
        /\ responses' = Append(responses, [id |-> resp.id, output |-> resp.output])
        /\ nextId' = nextId + Len(resp.output)
        /\ total_tokens_used' = Accumulate(total_tokens_used, resp)
        /\ IF Len(OfType(resp.output, "function_call")) > 0
           THEN /\ conversation' = Extend(conversation, OfType(resp.output, "reasoning"))
                /\ pc' = "invoke"
           ELSE /\ conversation' = Extend(Extend(conversation,
                                                 OfType(resp.output, "reasoning")),
                                          OfType(resp.output, "message"))
                /\ pc' = IF ManualBreak(resp.output) THEN "for" ELSE "create"
    /\ idx' = 1
    /\ intermediate_messages' = <<>>
    /\ UNCHANGED <<cell, msgIdx, new_conversation_items, requests, invoked, raised>>

\* the helper has returned: the interleaved pairs, the messages and the break test
ManualAfterInvoke ==
    /\ cell = "manual"
    /\ pc = "invoke"
    /\ idx > Len(response.output)
    /\ conversation' =
           Extend(Extend(conversation,
                         Interleave(OfType(response.output, "function_call"),
                                    intermediate_messages)),
                  OfType(response.output, "message"))
    /\ pc' = IF ManualBreak(response.output) THEN "for" ELSE "create"
    /\ UNCHANGED <<cell, msgIdx, response, responses, idx, intermediate_messages,
                   new_conversation_items, requests, invoked, raised,
                   total_tokens_used, nextId>>

-----------------------------------------------------------------------------
(* The previous_response_id response loop *)

\* the first request carries the question, a later one function_responses
PrevIdCreate ==
    /\ cell = "previd"
    /\ pc = "create"
    /\ IF response = NoResponse
       THEN Send(<<UserMessage(0)>>, 0)
       ELSE Send(intermediate_messages, response.id)
    /\ pc' = "await"
    /\ UNCHANGED <<cell, conversation, msgIdx, response, responses, idx, intermediate_messages,
                   new_conversation_items, invoked, raised, total_tokens_used, nextId>>

\* the response arrives and the loop body calls the helper
PrevIdReceive ==
    /\ cell = "previd"
    /\ pc = "await"
    /\ \E resp \in Responses(Len(requests), nextId) :
        /\ response' = resp
        /\ responses' = Append(responses, [id |-> resp.id, output |-> resp.output])
        /\ nextId' = nextId + Len(resp.output)
    /\ pc' = "invoke"
    /\ idx' = 1
    /\ intermediate_messages' = <<>>
    /\ UNCHANGED <<cell, conversation, msgIdx, new_conversation_items, requests,
                   invoked, raised, total_tokens_used>>

\* the helper has returned function_responses: break or ask again
PrevIdAfterInvoke ==
    /\ cell = "previd"
    /\ pc = "invoke"
    /\ idx > Len(response.output)
    /\ pc' = IF PrevIdBreak(intermediate_messages) THEN "done" ELSE "create"
    /\ UNCHANGED <<cell, conversation, msgIdx, response, responses, idx, intermediate_messages,
                   new_conversation_items, requests, invoked, raised,
                   total_tokens_used, nextId>>

-----------------------------------------------------------------------------
(* The single function-call cell and the request that follows it *)

\* the exception the cell's loop body raises for function_call, "" when none
SingleRaises(function_call) ==
    IF ~Registered(function_call.name) THEN "ValueError"
    ELSE TryRaises(function_call.arguments)

\* the question is sent, and after the loop the function call outputs
SingleCreate ==
    /\ cell = "single"
    /\ pc = "create"
    /\ IF response = NoResponse
       THEN Send(<<UserMessage(0)>>, 0)
       ELSE Send(new_conversation_items, response.id)
    /\ pc' = "await"
    /\ UNCHANGED <<cell, conversation, msgIdx, response, responses, idx, intermediate_messages,
                   new_conversation_items, invoked, raised, total_tokens_used, nextId>>

\* the first response starts the loop over its function calls, the second is printed
SingleReceive ==
    /\ cell = "single"
    /\ pc = "await"
    /\ \E resp \in Responses(Len(requests), nextId) :
        /\ response' = resp
        /\ responses' = Append(responses, [id |-> resp.id, output |-> resp.output])
        /\ nextId' = nextId + Len(resp.output)
    /\ pc' = IF Len(requests) = 1 THEN "loop" ELSE "done"
    /\ idx' = 1
    /\ new_conversation_items' = IF Len(requests) = 1 THEN <<>> ELSE new_conversation_items
    /\ UNCHANGED <<cell, conversation, msgIdx, intermediate_messages, requests,
                   invoked, raised, total_tokens_used>>

\* one iteration of: for function_call in function_calls
SingleStep ==
    /\ cell = "single"
    /\ pc = "loop"
    /\ LET function_calls == OfType(response.output, "function_call") IN
        IF idx <= Len(function_calls)
        THEN LET function_call == function_calls[idx] IN
             /\ invoked' = IF CallsTool(function_call)
                           THEN Append(invoked, function_call.call_id)
                           ELSE invoked
             /\ IF SingleRaises(function_call) # ""
                THEN /\ raised' = SingleRaises(function_call)
                     /\ pc' = "raised"
                     /\ UNCHANGED <<idx, new_conversation_items>>
                ELSE /\ \E u \in 1..MaxUuid :
                         new_conversation_items' =
                             Append(new_conversation_items,
                                    FunctionCallOutput(function_call.call_id,
                                                       ToolOutput(function_call, u)))
                     /\ idx' = idx + 1
                     /\ UNCHANGED <<pc, raised>>
        ELSE /\ pc' = "create"
             /\ UNCHANGED <<idx, new_conversation_items, invoked, raised>>
    /\ UNCHANGED <<cell, conversation, msgIdx, response, responses, intermediate_messages,
                   requests, total_tokens_used, nextId>>

-----------------------------------------------------------------------------
(* The remote request fails: the exception leaves the cell *)

\* mutant: the failed request is sent again
RequestFailsRetried ==
    /\ pc = "await"
    /\ pc' = "create"
    /\ UNCHANGED <<cell, conversation, msgIdx, response, responses, idx,
                   intermediate_messages, new_conversation_items, requests, invoked,
                   raised, total_tokens_used, nextId>>

RequestFails ==
    /\ pc = "await"
    /\ pc' = "raised"
    /\ raised' = "APIError"
    /\ UNCHANGED <<cell, conversation, msgIdx, response, responses, idx, intermediate_messages,
                   new_conversation_items, requests, invoked, total_tokens_used, nextId>>

Next ==
    \/ HelperStep
    \/ ManualNextMessage
    \/ ManualCreate
    \/ ManualReceive
    \/ ManualAfterInvoke
    \/ PrevIdCreate
    \/ PrevIdReceive
    \/ PrevIdAfterInvoke
    \/ SingleCreate
    \/ SingleReceive
    \/ SingleStep
    \/ RequestFails

Spec == Init /\ [][Next]_vars

\* The response loops when every request is answered: the cells are sequential
\* code that runs on as long as a step is possible, and the service of the
\* model stops returning function calls once it has returned MaxIds items.
LiveInit == Init /\ cell \in {"previd", "manual"}

LiveNext ==
    \/ HelperStep
    \/ ManualNextMessage
    \/ ManualCreate
    \/ ManualReceive
    \/ ManualAfterInvoke
    \/ PrevIdCreate
    \/ PrevIdReceive
    \/ PrevIdAfterInvoke

LiveSpec == LiveInit /\ [][LiveNext]_vars /\ WF_vars(LiveNext)

-----------------------------------------------------------------------------
(* Vocabulary of the properties *)

HelperCells == {"previd", "manual"}

NoToolMarker == "ERROR - No tool registered for function call"

ExecErrorMarker == "Error executing function call"

Range(seq) == {seq[i] : i \in 1..Len(seq)}

Last(seq) == seq[Len(seq)]

IsPrefix(a, b) == Len(a) <= Len(b) /\ SubSeq(b, 1, Len(a)) = a

\* the call_ids of the items of the given type, in their order in seq
CallIds(seq, type) ==
    LET of == OfType(seq, type) IN [i \in 1..Len(of) |-> of[i].call_id]

\* the positions of seq that hold a function_call_output for call_id
ResultsFor(seq, call_id) ==
    {j \in 1..Len(seq) : seq[j].type = "function_call_output" /\ seq[j].call_id = call_id}

\* the result list of the resolution loop that runs
Results == IF cell = "single" THEN new_conversation_items ELSE intermediate_messages

\* the function calls the resolution loop has dealt with so far, the one it
\* raised on included
Handled ==
    LET items == IF cell = "single" THEN OfType(response.output, "function_call")
                 ELSE response.output
        upto == IF pc = "raised" THEN idx ELSE idx - 1
    IN  IF pc \in {"invoke", "loop"} \/ (pc = "raised" /\ raised # "APIError")
        THEN {items[i] : i \in {j \in 1..Len(items) :
                                  j <= upto /\ items[j].type = "function_call"}}
        ELSE {}

\* the result list holds an output for call c whose text starts with one of kinds
HasResult(c, kinds) ==
    \E j \in ResultsFor(Results, c.call_id) : Results[j].output.kind \in kinds

\* the registered tool is called for item c and raises
ToolRaises(c) ==
    c.type = "function_call" /\ CallsTool(c) /\ TryRaises(c.arguments) # ""

-----------------------------------------------------------------------------
(* C1 *)

\* C1: round-trip completeness. In the manual loop, the input of every request
\* sent holds, for each function call in it, exactly one function_call_output
\* with the same call_id.
C1_RoundTripComplete ==
    cell = "manual" =>
        \A k \in 1..Len(requests) :
            \A i \in 1..Len(requests[k].input) :
                requests[k].input[i].type = "function_call" =>
                    Cardinality(ResultsFor(requests[k].input,
                                           requests[k].input[i].call_id)) = 1

\* a request of the manual loop that carries two function calls of one response
C1_Witness ==
    /\ cell = "manual"
    /\ pc = "await"
    /\ Len(OfType(Last(requests).input, "function_call")) = 2

-----------------------------------------------------------------------------
(* C2 *)

\* a response loop finishes the processing of a response
ResponseProcessed ==
    /\ cell \in HelperCells
    /\ pc \in {"await", "invoke"}
    /\ pc' \in {"for", "create", "done"}

\* C2: termination rule. When a response loop has processed a response, it
\* leaves the loop (the manual loop goes on to the next user message, the
\* previous_response_id loop is done) if and only if the response holds no
\* function call; and the manual loop's log then ends with the messages of
\* that response.
C2_TerminationRule ==
    [][ResponseProcessed =>
         /\ (pc' \in {"for", "done"}) <=> (OfType(response'.output, "function_call") = <<>>)
         /\ (cell = "manual" /\ pc' = "for") =>
                LET messages == OfType(response'.output, "message") IN
                /\ Len(messages) <= Len(conversation')
                /\ SubSeq(conversation', Len(conversation') - Len(messages) + 1,
                          Len(conversation')) = messages]_vars

\* the first turn of the manual loop is complete after a response with a
\* function call and a message, which did not end it, and one without
C2_Witness ==
    /\ cell = "manual"
    /\ pc = "for"
    /\ msgIdx = 1
    /\ Len(requests) = 2
    /\ \E i \in 1..Len(conversation) :
          conversation[i].type = "message" /\ conversation[i].role = "assistant"

-----------------------------------------------------------------------------
(* C3 *)

\* C3 as stated: whichever cell resolves it, a function call that names an
\* unregistered tool gets an output with the "No tool registered" marker and
\* nothing is raised.
C3_UnregisteredNeverRaises ==
    \A c \in Handled :
        ~Registered(c.name) => HasResult(c, {NoToolMarker}) /\ raised = ""

\* C3 amended: invoke_functions_from_response, which both response loops call,
\* gives a function call that names an unregistered tool an output with its
\* call_id and the "No tool registered" marker, and raises nothing.
C3_HelperUnregistered ==
    cell \in HelperCells =>
        \A c \in Handled :
            ~Registered(c.name) => HasResult(c, {NoToolMarker}) /\ raised = ""

\* the helper has dealt with a function call that names an unregistered tool
C3_Witness ==
    /\ cell \in HelperCells
    /\ \E c \in Handled : ~Registered(c.name) /\ HasResult(c, {NoToolMarker})

-----------------------------------------------------------------------------
(* C4 *)

\* C4: when the registered tool raises for a function call, the helper appends
\* an output with the call's call_id and the execution-error marker and moves
\* on to the next item; when it returns, every function call of the response
\* has its output and the loop goes on to the next request.
C4_ToolErrorContinues ==
    [][(cell \in HelperCells /\ pc = "invoke") =>
         /\ (idx <= Len(response.output) /\ ToolRaises(response.output[idx])) =>
                /\ pc' = "invoke"
                /\ raised' = ""
                /\ idx' = idx + 1
                /\ Len(intermediate_messages') = Len(intermediate_messages) + 1
                /\ Last(intermediate_messages').type = "function_call_output"
                /\ Last(intermediate_messages').call_id = response.output[idx].call_id
                /\ Last(intermediate_messages').output.kind = ExecErrorMarker
         /\ (/\ idx > Len(response.output)
             /\ \E i \in 1..Len(response.output) : ToolRaises(response.output[i])) =>
                /\ pc' = "create"
                /\ raised' = ""
                /\ CallIds(intermediate_messages, "function_call_output")
                       = CallIds(response.output, "function_call")]_vars

\* the manual loop has sent the request that follows a response whose first
\* function call made the tool raise and whose second one was resolved
C4_Witness ==
    /\ cell = "manual"
    /\ pc = "await"
    /\ Len(OfType(response.output, "function_call")) = 2
    /\ ToolRaises(response.output[1])
    /\ \E j \in 1..Len(conversation) :
          /\ conversation[j].type = "function_call_output"
          /\ conversation[j].call_id = response.output[2].call_id

-----------------------------------------------------------------------------
(* C5 *)

\* C5 as stated: whichever cell resolves it, a function call whose arguments do
\* not parse gets an error output, the tool is not called for it and nothing
\* is raised.
C5_MalformedNeverRaises ==
    \A c \in Handled :
        c.arguments = "malformed" =>
            /\ c.call_id \notin Range(invoked)
            /\ HasResult(c, {ExecErrorMarker, NoToolMarker})
            /\ raised = ""

\* C5 amended: in invoke_functions_from_response a function call whose
\* arguments do not parse gets an error output with its call_id, which for a
\* registered tool carries the marker of a tool-execution error; the tool is
\* not called for it and nothing is raised.
C5_HelperMalformed ==
    cell \in HelperCells =>
        \A c \in Handled :
            c.arguments = "malformed" =>
                /\ c.call_id \notin Range(invoked)
                /\ HasResult(c, {ExecErrorMarker, NoToolMarker})
                /\ Registered(c.name) => HasResult(c, {ExecErrorMarker})
                /\ raised = ""

\* the helper has dealt with a function call for the registered tool whose
\* arguments do not parse
C5_Witness ==
    /\ cell \in HelperCells
    /\ \E c \in Handled :
          c.arguments = "malformed" /\ Registered(c.name) /\ HasResult(c, {ExecErrorMarker})

-----------------------------------------------------------------------------
(* C6 *)

\* C6: the conversation log is append-only: every step leaves the log it
\* found as a prefix of the log it produces.
C6_AppendOnly == [][IsPrefix(conversation, conversation')]_vars

\* both user messages have been processed and the log holds a function call
C6_Witness ==
    /\ cell = "manual"
    /\ pc = "for"
    /\ msgIdx = NumUserMessages
    /\ OfType(conversation, "function_call") # <<>>

-----------------------------------------------------------------------------
(* C7 *)

\* C7: when the manual loop has processed a response, what it has appended to
\* the log since the request was sent is: the reasoning items in their
\* received order, then for each function call in received order the call
\* followed by the output with its call_id, then the messages in their
\* received order.
C7_AppendOrder ==
    [][(cell = "manual" /\ pc \in {"await", "invoke"} /\ pc' \in {"for", "create"}) =>
         LET sent == Last(requests).input
             appended == SubSeq(conversation', Len(sent) + 1, Len(conversation'))
             reasoning == OfType(response'.output, "reasoning")
             function_calls == OfType(response'.output, "function_call")
             messages == OfType(response'.output, "message")
             r == Len(reasoning)
             f == Len(function_calls)
         IN  /\ IsPrefix(sent, conversation')
             /\ Len(appended) = r + 2 * f + Len(messages)
             /\ \A i \in 1..r : appended[i] = reasoning[i]
             /\ \A i \in 1..f :
                   /\ appended[r + 2 * i - 1] = function_calls[i]
                   /\ appended[r + 2 * i].type = "function_call_output"
                   /\ appended[r + 2 * i].call_id = function_calls[i].call_id
             /\ \A i \in 1..Len(messages) : appended[r + 2 * f + i] = messages[i]]_vars

\* a response that held a message before a function call has been processed:
\* the log ends with the message, after the call and its output
C7_Witness ==
    /\ cell = "manual"
    /\ pc = "create"
    /\ Len(response.output) = 2
    /\ response.output[1].type = "message"
    /\ response.output[2].type = "function_call"
    /\ Last(conversation) = response.output[1]

-----------------------------------------------------------------------------
(* C8 *)

\* C8 as stated: two items of one response stand in the log in the order in
\* which the service returned them.
C8_ReceivedOrderPreserved ==
    cell = "manual" =>
        \A i, j \in 1..Len(response.output) :
            i < j =>
                \A p, q \in 1..Len(conversation) :
                    (conversation[p] = response.output[i]
                        /\ conversation[q] = response.output[j]) => p < q

-----------------------------------------------------------------------------
(* C9 *)

\* C9: every function_call_output in the log comes after a function call in the
\* log with the same call_id, and is the output the helper computes for that
\* call.
C9_ResultHasItsCall ==
    \A p \in 1..Len(conversation) :
        conversation[p].type = "function_call_output" =>
            \E q \in 1..(p - 1) :
                /\ conversation[q].type = "function_call"
                /\ conversation[q].call_id = conversation[p].call_id
                /\ \E u \in 1..MaxUuid :
                      conversation[p].output = ToolOutput(conversation[q], u)

\* the log holds the outputs of two function calls of one response that name
\* different tools
C9_Witness ==
    /\ cell = "manual"
    /\ \E p, q \in 1..Len(conversation) :
          /\ q = p + 2
          /\ conversation[p].type = "function_call_output"
          /\ conversation[q].type = "function_call_output"
          /\ conversation[p].output.name # conversation[q].output.name

-----------------------------------------------------------------------------
(* C10 *)

\* a response loop has sent the request that follows a response with function calls
SentAfterToolCalls ==
    /\ cell \in HelperCells
    /\ pc = "await"
    /\ OfType(response.output, "function_call") # <<>>

\* C10 as stated: the request that follows a response with function calls
\* carries the outputs of the function calls of that response and no others.
C10_CarriesExactlyThoseResults ==
    SentAfterToolCalls =>
        CallIds(Last(requests).input, "function_call_output")
            = CallIds(response.output, "function_call")

\* C10 amended: the request that follows a response with function calls is the
\* very next one and carries one output per function call of that response, in
\* call order: in the previous_response_id loop these are its whole input; in
\* the manual loop its input is the input of the request before it, extended,
\* and the outputs in the extension are exactly those.
C10_NextRequestCarriesResults ==
    SentAfterToolCalls =>
        /\ Len(requests) = response.id + 1
        /\ cell = "previd" =>
              /\ Last(requests).previous_response_id = response.id
              /\ Last(requests).input = intermediate_messages
              /\ CallIds(Last(requests).input, "function_call_output")
                    = CallIds(response.output, "function_call")
        /\ cell = "manual" =>
              LET before == requests[Len(requests) - 1].input
                  now == Last(requests).input
              IN  /\ IsPrefix(before, now)
                  /\ CallIds(SubSeq(now, Len(before) + 1, Len(now)), "function_call_output")
                        = CallIds(response.output, "function_call")

\* the manual loop has sent its third request, after two responses with
\* function calls
C10_Witness ==
    /\ SentAfterToolCalls
    /\ cell = "manual"
    /\ Len(requests) = 3

-----------------------------------------------------------------------------
(* C11 *)

\* C11 as stated: once a response loop has processed a response that holds
\* neither a function call nor a message, the caller has been given an error:
\* the loop has neither gone on silently nor finished as for a completed turn.
C11_NoProgressSurfaced ==
    (/\ cell \in HelperCells
     /\ pc \in {"for", "create", "done"}
     /\ response # NoResponse
     /\ OfType(response.output, "function_call") = <<>>
     /\ OfType(response.output, "message") = <<>>) => raised # ""

-----------------------------------------------------------------------------
(* C12 *)

\* C12: a request is sent only when every earlier request has been answered
\* (none is sent again); a step that leaves a request without a response
\* raises to the caller and changes neither the log, nor the requests sent,
\* nor the tools invoked, nor the results held; and nothing runs after it.
C12_RequestFailurePropagates ==
    [][/\ pc # "raised"
       /\ (Len(requests') > Len(requests)) => Len(responses) = Len(requests)
       /\ (pc = "await" /\ responses' = responses) =>
             /\ pc' = "raised"
             /\ raised' = "APIError"
             /\ UNCHANGED <<conversation, requests, invoked, intermediate_messages,
                            new_conversation_items, response, total_tokens_used>>]_vars

\* the second request of the manual loop, sent after a function call was
\* resolved, has failed
C12_Witness ==
    /\ cell = "manual"
    /\ raised = "APIError"
    /\ Len(requests) = 2
    /\ conversation = Last(requests).input
    /\ OfType(conversation, "function_call") # <<>>

-----------------------------------------------------------------------------
(* C13 *)

\* C13: in the manual loop the input of every request holds every reasoning
\* item and every function call of every response received before the request
\* was sent.
C13_ReasoningAndCallsKept ==
    cell = "manual" =>
        \A k \in 1..Len(requests) :
            \A j \in 1..Len(responses) :
                j < k =>
                    \A i \in 1..Len(responses[j].output) :
                        responses[j].output[i].type \in {"reasoning", "function_call"} =>
                            responses[j].output[i] \in Range(requests[k].input)

\* the request for the second user message has been sent after a first turn
\* whose first response held a reasoning item and a function call
C13_Witness ==
    /\ cell = "manual"
    /\ msgIdx = 2
    /\ pc = "await"
    /\ Len(responses) = 2
    /\ OfType(responses[1].output, "reasoning") # <<>>
    /\ OfType(responses[1].output, "function_call") # <<>>

-----------------------------------------------------------------------------
(* C14 *)

\* the helper is about to handle a function call
AtFunctionCall ==
    /\ cell \in HelperCells
    /\ pc = "invoke"
    /\ idx <= Len(response.output)
    /\ response.output[idx].type = "function_call"

\* the result list after the helper has handled the item at idx, the tool
\* drawing UUID u
Replayed(u) ==
    HelperAppend(intermediate_messages, response.output[idx],
                 ToolOutput(response.output[idx], u))

\* seq with the UUID of every output blanked
WithoutUuid(seq) == [i \in 1..Len(seq) |-> [seq[i] EXCEPT !.output.uuid = 0]]

-----------------------------------------------------------------------------
(* C15 *)

\* the state of the manual loop in the terms of the state machine
OrchestratorState ==
    IF pc \in {"create", "await"} THEN "AWAITING_RESPONSE"
    ELSE IF pc = "invoke" THEN "EXECUTING_TOOLS"
    ELSE IF pc \in {"for", "done"} THEN "COMPLETE"
    ELSE "ABORTED"

\* C15: the manual loop moves from AWAITING_RESPONSE to EXECUTING_TOOLS only on
\* a response with a function call and to COMPLETE only on one without, from
\* EXECUTING_TOOLS only back to AWAITING_RESPONSE, and leaves COMPLETE only by
\* taking the next user message, which starts in AWAITING_RESPONSE; a failed
\* request ends the run.
C15_StateMachine ==
    [][cell = "manual" =>
         /\ OrchestratorState = "AWAITING_RESPONSE" =>
               /\ OrchestratorState' \in {"AWAITING_RESPONSE", "EXECUTING_TOOLS",
                                          "COMPLETE", "ABORTED"}
               /\ OrchestratorState' = "EXECUTING_TOOLS" =>
                     /\ responses' # responses
                     /\ OfType(response'.output, "function_call") # <<>>
               /\ OrchestratorState' = "COMPLETE" =>
                     /\ responses' # responses
                     /\ OfType(response'.output, "function_call") = <<>>
               /\ OrchestratorState' = "AWAITING_RESPONSE" => msgIdx' = msgIdx
         /\ OrchestratorState = "EXECUTING_TOOLS" =>
               /\ OrchestratorState' \in {"EXECUTING_TOOLS", "AWAITING_RESPONSE"}
               /\ msgIdx' = msgIdx
         /\ OrchestratorState = "COMPLETE" =>
               \/ OrchestratorState' = "COMPLETE" /\ msgIdx' = msgIdx
               \/ OrchestratorState' = "AWAITING_RESPONSE" /\ msgIdx' = msgIdx + 1
         /\ OrchestratorState # "ABORTED"]_vars

\* the manual loop is over after three requests and a tool invocation
C15_Witness ==
    /\ cell = "manual"
    /\ pc = "done"
    /\ Len(requests) = 3
    /\ invoked # <<>>

-----------------------------------------------------------------------------
(* C16 *)

\* the items of the responses rs, in the order in which the service returned them
RECURSIVE AllItems(_)
AllItems(rs) ==
    IF rs = <<>> THEN <<>>
    ELSE AllItems(SubSeq(rs, 1, Len(rs) - 1)) \o Last(rs).output

\* a function call for the registered tool whose arguments parse
Invocable(item) ==
    /\ item.type = "function_call"
    /\ item.name = "get_city_uuid"
    /\ item.arguments # "malformed"

\* C16: at most one request is unanswered, and only while the cell waits for
\* it; inside the helper the outputs so far are those of the function calls
\* before the current item, in the order returned; a request is prepared or
\* outstanding only when every function call of the last response has its
\* output; and the tool is invoked in the order the calls were returned.
C16_OneAtATimeInOrder ==
    /\ Len(requests) - Len(responses) \in {0, 1}
    /\ (Len(requests) = Len(responses) + 1) <=> (pc = "await" \/ raised = "APIError")
    /\ cell \in HelperCells =>
          /\ pc = "invoke" =>
                CallIds(intermediate_messages, "function_call_output")
                    = CallIds(SubSeq(response.output, 1, idx - 1), "function_call")
          /\ (pc \in {"create", "await"} /\ response # NoResponse) =>
                CallIds(intermediate_messages, "function_call_output")
                    = CallIds(response.output, "function_call")
          /\ IsPrefix(invoked,
                      CallIds(SelectSeq(AllItems(responses), Invocable), "function_call"))

\* the manual loop waits for its second response after the tool was invoked
\* for two function calls of the first
C16_Witness ==
    /\ cell = "manual"
    /\ pc = "await"
    /\ Len(requests) = 2
    /\ Len(invoked) = 2

-----------------------------------------------------------------------------
(* C18 *)

\* how often x occurs in seq
Count(seq, x) == Cardinality({i \in 1..Len(seq) : seq[i] = x})

\* the helper has not reached the item yet
Pending(item) ==
    /\ pc = "invoke"
    /\ \E i \in idx..Len(response.output) : response.output[i] = item

\* C18: in the response loops the tool has been invoked exactly once for every
\* function call returned so far that names the registered tool with arguments
\* that parse and that the helper has reached, and not at all for any other.
C18_InvokedExactlyOnce ==
    cell \in HelperCells =>
        \A item \in Range(AllItems(responses)) :
            item.type = "function_call" =>
                Count(invoked, item.call_id)
                    = IF Invocable(item) /\ ~Pending(item) THEN 1 ELSE 0

\* a response with a function call for the registered tool and one the tool is
\* never called for has been processed
C18_Witness ==
    /\ cell \in HelperCells
    /\ pc = "create"
    /\ Len(OfType(response.output, "function_call")) = 2
    /\ Len(invoked) = 1

-----------------------------------------------------------------------------
(* C17 *)

\* a turn is in progress
InTurn == pc \in {"create", "await", "invoke"}

\* no turn is in progress: the last one is complete
TurnComplete == pc \in {"for", "done"}

\* C17: when every request is answered and the service stops returning function
\* calls, every turn in progress is eventually complete; and a turn is complete
\* only after a response without function calls, however many requests it took.
C17_TurnsComplete ==
    /\ InTurn ~> TurnComplete
    /\ []((TurnComplete /\ response # NoResponse) =>
             OfType(response.output, "function_call") = <<>>)

\* the previous_response_id loop is done after as many tool round trips as the
\* service returned function calls, one per response
C17_Witness ==
    /\ cell = "previd"
    /\ pc = "done"
    /\ Len(requests) = MaxIds + 1
    /\ Len(intermediate_messages) = 0
    /\ \A j \in 1..MaxIds : OfType(responses[j].output, "function_call") # <<>>

-----------------------------------------------------------------------------
(* C19 *)

\* the contents of the user messages in seq, in their order in seq
UserContents(seq) ==
    LET users == SelectSeq(seq, LAMBDA x : x.type = "message" /\ x.role = "user")
    IN  [i \in 1..Len(users) |-> users[i].content]

\* C19: the manual loop takes a user message only at the head of the for loop,
\* when every request has been answered, the last response held no function
\* call and every function call in the log has exactly one output; it appends
\* the next message of user_messages, so the log holds the user messages taken
\* so far in the order of user_messages.
C19_UserMessageAfterComplete ==
    [][cell = "manual" =>
         /\ msgIdx' # msgIdx =>
               /\ pc = "for"
               /\ Len(responses) = Len(requests)
               /\ OfType(response.output, "function_call") = <<>>
               /\ \A i \in 1..Len(conversation) :
                     conversation[i].type = "function_call" =>
                         Cardinality(ResultsFor(conversation, conversation[i].call_id)) = 1
               /\ msgIdx' = msgIdx + 1
               /\ conversation' = Append(conversation, UserMessage(msgIdx'))
         /\ UserContents(conversation') = [i \in 1..msgIdx' |-> i]]_vars

\* the second user message has been appended to a log that holds a function
\* call and its output
C19_Witness ==
    /\ cell = "manual"
    /\ msgIdx = 2
    /\ pc = "create"
    /\ Last(conversation) = UserMessage(2)
    /\ OfType(conversation, "function_call_output") # <<>>

-----------------------------------------------------------------------------
(* C20 *)

\* C20: between two responses, the previous_response_id loop and the manual
\* loop (in its first turn) are in a state that the responses received so far
\* determine in the same way for both: one request was sent per response;
\* the loop has stopped if and only if the last response holds no function
\* call, and no earlier one did; the tool was invoked for the invocable calls
\* of all responses in their order; and the helper returned one output per
\* function call of the last response.
C20_LoopsAgree ==
    (/\ cell \in HelperCells
     /\ cell = "manual" => msgIdx = 1
     /\ pc \in {"create", "for", "done"}) =>
        LET n == Len(responses) IN
        /\ Len(requests) = n
        /\ (pc \in {"for", "done"})
              <=> (n > 0 /\ OfType(responses[n].output, "function_call") = <<>>)
        /\ \A j \in 1..(n - 1) : OfType(responses[j].output, "function_call") # <<>>
        /\ invoked = CallIds(SelectSeq(AllItems(responses), Invocable), "function_call")
        /\ n > 0 => CallIds(intermediate_messages, "function_call_output")
                        = CallIds(responses[n].output, "function_call")

\* the previous_response_id loop has stopped on its second response, after a
\* response with a function call for which the tool was invoked
C20_Witness ==
    /\ cell = "previd"
    /\ pc = "done"
    /\ Len(responses) = 2
    /\ invoked # <<>>

-----------------------------------------------------------------------------
(* C21 *)

\* C21: in the manual loop total_tokens_used starts at 0; a step that receives
\* a response increases it by that response's total_tokens, and every other
\* step, the next user message included, leaves it as it is. It is therefore
\* the sum of total_tokens over the responses received, which lies between the
\* number of responses and MaxTokens times that number.
C21_TokenAccumulator ==
    /\ total_tokens_used = 0
    /\ [][cell = "manual" =>
            /\ total_tokens_used' =
                   IF Len(responses') = Len(responses) + 1
                   THEN total_tokens_used + response'.total_tokens
                   ELSE total_tokens_used
            /\ Len(responses') # Len(responses) =>
                   /\ responses' = Append(responses, [id |-> response'.id,
                                                      output |-> response'.output])
                   /\ response'.total_tokens \in 1..MaxTokens
            /\ total_tokens_used' >= Len(responses')
            /\ total_tokens_used' <= MaxTokens * Len(responses')]_vars

\* the manual loop has ended after both user messages, and the accumulator
\* holds the usage of the responses of both turns
C21_Witness ==
    /\ cell = "manual"
    /\ msgIdx = NumUserMessages
    /\ pc = "done"
    /\ Len(responses) > NumUserMessages
    /\ total_tokens_used = MaxTokens + Len(responses) - 1

====
